---- MODULE Spec2Model ----
(***************************************************************************)
(* Model of Xapian::ESet::Internal::expand (xapian-core/expand/            *)
(* esetinternal.cc): the query-expansion term selection.  One call of      *)
(* expand builds a merged term list over the documents of the RSet, walks  *)
(* it once, scores each term the ExpandDecider accepts and keeps the       *)
(* max_esize best ExpandTerm objects in `items`, counting the accepted     *)
(* terms in `ebound`.                                                      *)
(*                                                                         *)
(* Terms are strings, modelled as sequences of character codes; weights    *)
(* are doubles, modelled as integers (only their order is used).           *)
(***************************************************************************)
EXTENDS Integers, Sequences, FiniteSets

(* ------------------------------ bounds --------------------------------- *)
\* largest max_esize a caller passes
MaxK == 3
\* most terms the merged term list yields in one call
MaxStream == 4
\* most documents in the RSet
MaxDocs == 3
\* most root replacements tree->next() reports in one call
MaxReplace == 1

\* the terms the documents hold, in the (ascending) order a TermList yields them
TermList == << <<1>>, <<1, 1>>, <<1, 2>>, <<2>>, <<2, 1>>, <<2, 2>> >>
\* values eweight.get_weight() returns
Weights == {0, 1, 2}
\* values of the min_wt argument
MinWts == {0, 1}

VARIABLES
    pc,            \* position of the caller / of expand
    max_esize,     \* argument max_esize
    edecider,      \* TRUE iff an ExpandDecider was passed (non-null pointer)
    min_wt,        \* argument min_wt, raised by the overflow step
    init_min_wt,   \* the value min_wt had on entry
    ebound,        \* ESet::Internal::ebound
    items,         \* ESet::Internal::items, a vector of ExpandTerm
    is_heap,       \* local is_heap
    pos,           \* position of the tree in TermList (0: not started)
    at_end,        \* what tree->at_end() answers
    term,          \* local term
    wt,            \* local wt
    pending,       \* docids of the RSet the build loop has not visited yet
    termlists,     \* local vector termlists: the TermLists opened, by number
    opens,         \* calls of open_term_list_direct that returned a TermList
    leaf_deletes,  \* the TermLists the catch block deleted, in order
    root,          \* id of the TermList owned by `tree` (0: none)
    replaced,      \* number of root replacements so far in this call
    deleted,       \* ids of the roots deleted, in order
    stats_term,    \* the term collect_stats was last called for (<<>>: none)
    collects,      \* calls of eweight.collect_stats
    weighs,        \* calls of eweight.get_weight
    seen,          \* history: the terms whose loop iteration has ended
    queried,       \* id of the TermList last asked at_end/get_termname/stats
    calls,         \* history: number of calls of next() and the std algorithms
    off_from_end,  \* ESetIterator::off_from_end of the caller's iterator
    deref,         \* what operator* and get_weight returned at this position
    visited        \* history: what the iterator returned at each position left

vars == << pc, max_esize, edecider, min_wt, init_min_wt, ebound, items,
           is_heap, pos, at_end, term, wt, pending, termlists, opens,
           leaf_deletes, root, replaced, deleted, stats_term, collects,
           weighs, seen, queried, calls, off_from_end, deref, visited >>

\* the caller's ESetIterator
iter_vars == << off_from_end, deref, visited >>

\* nothing read at the iterator's position (terms are never empty)
NoDeref == [term |-> << >>, wt |-> << >>]

\* no call made yet
NoCalls ==
    [next |-> 0, make_heap |-> 0, push_heap |-> 0, pop_heap |-> 0,
     sort |-> 0, sort_heap |-> 0]

(* --------------------------- ExpandTerm order -------------------------- *)
\* std::string operator< : lexicographic comparison
StrLess(a, b) ==
    \E i \in 1 .. Len(b) :
        /\ \A j \in 1 .. (i - 1) : j <= Len(a) /\ a[j] = b[j]
        /\ (i > Len(a) \/ a[i] < b[i])

\* ExpandTerm::operator< : a sorts before b (a is the better candidate)
Less(a, b) ==
    \/ a.wt > b.wt
    \/ (a.wt = b.wt /\ StrLess(a.term, b.term))

ExpandTerm(w, t) == [wt |-> w, term |-> t]

(* ------------------------- heap and sort steps ------------------------- *)
Swap(s, i, j) == [s EXCEPT ![i] = s[j], ![j] = s[i]]

\* index of the child of i (among the first n elements) that compares largest, or i
LargestOf(s, i, n) ==
    LET l == 2 * i
        r == 2 * i + 1
        m == IF l <= n /\ Less(s[i], s[l]) THEN l ELSE i
    IN  IF r <= n /\ Less(s[m], s[r]) THEN r ELSE m

RECURSIVE SiftDown(_, _, _)
SiftDown(s, i, n) ==
    LET m == LargestOf(s, i, n)
    IN  IF m = i THEN s ELSE SiftDown(Swap(s, i, m), m, n)

RECURSIVE SiftUp(_, _)
SiftUp(s, i) ==
    IF i > 1 /\ Less(s[i \div 2], s[i])
    THEN SiftUp(Swap(s, i, i \div 2), i \div 2)
    ELSE s

RECURSIVE Heapify(_, _)
Heapify(s, i) ==
    IF i < 1 THEN s ELSE Heapify(SiftDown(s, i, Len(s)), i - 1)

\* std::make_heap(items.begin(), items.end())
MakeHeap(s) == Heapify(s, Len(s) \div 2)

\* std::push_heap(items.begin(), items.end())
PushHeap(s) == SiftUp(s, Len(s))

\* std::pop_heap on the first n elements: the largest goes to position n
PopHeapN(s, n) ==
    IF n <= 1 THEN s ELSE SiftDown(Swap(s, 1, n), 1, n - 1)

\* std::pop_heap(items.begin(), items.end())
PopHeap(s) == PopHeapN(s, Len(s))

\* items.pop_back()
PopBack(s) == SubSeq(s, 1, Len(s) - 1)

RECURSIVE SortHeapN(_, _)
SortHeapN(s, n) ==
    IF n <= 1 THEN s ELSE SortHeapN(PopHeapN(s, n), n - 1)

\* std::sort_heap(items.begin(), items.end())
SortHeap(s) == SortHeapN(s, Len(s))

\* insert x into the ascending sequence s
RECURSIVE InsertSorted(_, _)
InsertSorted(s, x) ==
    IF s = << >> THEN << x >>
    ELSE IF Less(x, s[1]) THEN << x >> \o s
    ELSE << s[1] >> \o InsertSorted(Tail(s), x)

RECURSIVE SortN(_, _)
SortN(s, n) ==
    IF n = 0 THEN << >> ELSE InsertSorted(SortN(s, n - 1), s[n])

\* std::sort(items.begin(), items.end())
Sort(s) == SortN(s, Len(s))

\* the overflow step without make_heap on the first overflow
RemoveWorst_NoMakeHeap(s, heap) ==
    PopBack(PopHeap(IF heap THEN PushHeap(s) ELSE s))

\* the overflow step that drops the term just pushed
RemoveWorst_DropsNewcomer(s, heap) == PopBack(s)

\* lines 141-151: the overflow step on the vector that just grew past max_esize
RemoveWorst(s, heap) ==
    PopBack(PopHeap(IF heap THEN PushHeap(s) ELSE MakeHeap(s)))

(* ------------------------------- Init ---------------------------------- *)
\* what a failed Assert does: AssertionError leaves expand at once
AssertionFailure == "asserted"

Init ==
    /\ pc = "idle"
    /\ max_esize = 0
    /\ edecider = FALSE
    /\ min_wt = 0
    /\ init_min_wt = 0
    /\ ebound = 0
    /\ items = << >>
    /\ is_heap = FALSE
    /\ pos = 0
    /\ at_end = FALSE
    /\ term = << >>
    /\ wt = 0
    /\ pending = 0
    /\ termlists = << >>
    /\ opens = 0
    /\ leaf_deletes = << >>
    /\ root = 0
    /\ replaced = 0
    /\ deleted = << >>
    /\ stats_term = << >>
    /\ collects = 0
    /\ weighs = 0
    /\ seen = << >>
    /\ queried = 0
    /\ calls = NoCalls
    /\ off_from_end = 0
    /\ deref = NoDeref
    /\ visited = << >>

(* ------------------------ expand: entry checks ------------------------- *)
\* the entry checks without Assert(!rset.empty())
EntryAssertsHold_NoRSetCheck(K, nd) ==
    /\ K # 0
    /\ ebound = 0
    /\ items = << >>

\* lines 99-104: the four Asserts at the top of expand
EntryAssertsHold(K, nd) ==
    /\ K # 0
    /\ nd # 0
    /\ ebound = 0
    /\ items = << >>

\* lines 90-106: the caller invokes expand(K, db, rset of nd documents,
\* edecider, eweight, min_wt) on this ESet::Internal; the decider may be
\* null and min_wt is any of MinWts
Expand(K, nd) ==
    /\ pc \in {"idle", "done"}
    /\ IF EntryAssertsHold(K, nd)
       THEN /\ pc' = "build"
            /\ max_esize' = K
            /\ edecider' \in BOOLEAN
            /\ min_wt' \in MinWts
            /\ init_min_wt' = min_wt'
            /\ pending' = nd
            /\ termlists' = << >>
            /\ opens' = 0
            /\ leaf_deletes' = << >>
            /\ root' = 0
            /\ replaced' = 0
            /\ deleted' = << >>
            /\ pos' = 0
            /\ at_end' = FALSE
            /\ term' = << >>
            /\ wt' = 0
            /\ stats_term' = << >>
            /\ collects' = 0
            /\ weighs' = 0
            /\ seen' = << >>
            /\ queried' = 0
            /\ calls' = NoCalls
            /\ UNCHANGED << ebound, items, is_heap >>
       ELSE /\ pc' = AssertionFailure
            /\ UNCHANGED << max_esize, edecider, min_wt, init_min_wt, ebound,
                            items, is_heap, pos, at_end, term, wt, pending,
                            termlists, opens, leaf_deletes, root, replaced,
                            deleted, stats_term, collects, weighs, seen,
                            queried, calls >>
    /\ UNCHANGED iter_vars

(* ------------------------- build_termlist_tree ------------------------- *)
\* lines 78-80: open_term_list_direct(did) returns a TermList
OpenTermList ==
    /\ UNCHANGED << queried, calls, off_from_end, deref, visited >>
    /\ pc = "build"
    /\ pending > 0
    /\ pending' = pending - 1
    /\ termlists' = Append(termlists, opens + 1)
    /\ opens' = opens + 1
    /\ UNCHANGED << pc, max_esize, edecider, min_wt, init_min_wt,
                    ebound, items, is_heap, pos, at_end, term, wt,
                    leaf_deletes, root, replaced, deleted, stats_term,
                    collects, weighs, seen >>

\* the exception leaves build_termlist_tree without the catch block
OpenTermListThrows_NoCatch ==
    /\ UNCHANGED << queried, calls, off_from_end, deref, visited >>
    /\ pc = "build"
    /\ pending > 0
    /\ pc' = "failed"
    /\ UNCHANGED << max_esize, edecider, min_wt, init_min_wt, ebound,
                    items, is_heap, pos, at_end, term, wt, pending, termlists,
                    opens, leaf_deletes, root, replaced, deleted, stats_term,
                    collects, weighs, seen >>

\* lines 79, 83-86: open_term_list_direct(did) throws; the catch block deletes
\* the TermLists opened so far and rethrows out of expand
OpenTermListThrows ==
    /\ UNCHANGED << queried, calls, off_from_end, deref, visited >>
    /\ pc = "build"
    /\ pending > 0
    /\ leaf_deletes' = leaf_deletes \o termlists
    /\ termlists' = << >>
    /\ pc' = "failed"
    /\ UNCHANGED << max_esize, edecider, min_wt, init_min_wt, ebound,
                    items, is_heap, pos, at_end, term, wt, pending, opens,
                    root, replaced, deleted, stats_term, collects, weighs,
                    seen >>

\* lines 81-82 and 106-109: make_termlist_merger takes the TermLists and
\* returns the root, which `tree` owns; is_heap starts false
MakeTermlistMerger ==
    /\ UNCHANGED << queried, calls, off_from_end, deref, visited >>
    /\ pc = "build"
    /\ pending = 0
    /\ termlists # << >>
    /\ termlists' = << >>
    /\ root' = 1
    /\ is_heap' = FALSE
    /\ pc' = "next"
    /\ UNCHANGED << max_esize, edecider, min_wt, init_min_wt, ebound,
                    items, pos, at_end, term, wt, pending, opens,
                    leaf_deletes, replaced, deleted, stats_term, collects,
                    weighs, seen >>

(* ------------------------------ the loop ------------------------------- *)
\* lines 112-116: tree->next() returns a new root (rep) or NULL
RootAfterNext(rep) == IF rep THEN root + 1 ELSE root
\* tree.reset(new_root) that does not delete the old root
DeletedAfterNext_Leak(rep) == deleted

\* lines 113-116: tree.reset(new_root) deletes the root it replaces
DeletedAfterNext(rep) == IF rep THEN Append(deleted, root) ELSE deleted

\* the loop with a second tree->next() in its body: every other term of the
\* stream is passed over
NextTerm_DoubleAdvance(rep) ==
    /\ pc = "next"
    /\ calls' = [calls EXCEPT !.next = @ + 1]
    /\ queried' = RootAfterNext(rep)
    /\ UNCHANGED iter_vars
    /\ rep => replaced < MaxReplace
    /\ Len(seen) < MaxStream
    /\ pos + 1 < Len(TermList)
    /\ root' = RootAfterNext(rep)
    /\ deleted' = DeletedAfterNext(rep)
    /\ replaced' = IF rep THEN replaced + 1 ELSE replaced
    /\ pos' = pos + 2
    /\ term' = TermList[pos + 2]
    /\ pc' = "decide"
    /\ UNCHANGED << max_esize, edecider, min_wt, init_min_wt, ebound,
                    items, is_heap, at_end, wt, pending, termlists, opens,
                    leaf_deletes, stats_term, collects, weighs, seen >>

\* lines 112-120: the tree moves to its next term
NextTerm(rep) ==
    /\ pc = "next"
    /\ calls' = [calls EXCEPT !.next = @ + 1]
    /\ queried' = RootAfterNext(rep)
    /\ UNCHANGED iter_vars
    /\ rep => replaced < MaxReplace
    /\ Len(seen) < MaxStream
    /\ pos < Len(TermList)
    /\ root' = RootAfterNext(rep)
    /\ deleted' = DeletedAfterNext(rep)
    /\ replaced' = IF rep THEN replaced + 1 ELSE replaced
    /\ pos' = pos + 1
    /\ term' = TermList[pos + 1]
    /\ pc' = "decide"
    /\ UNCHANGED << max_esize, edecider, min_wt, init_min_wt, ebound,
                    items, is_heap, at_end, wt, pending, termlists, opens,
                    leaf_deletes, stats_term, collects, weighs, seen >>

\* lines 112-118: the tree is exhausted, at_end() is true and the loop breaks
NextAtEnd(rep) ==
    /\ pc = "next"
    /\ calls' = [calls EXCEPT !.next = @ + 1]
    /\ queried' = RootAfterNext(rep)
    /\ UNCHANGED iter_vars
    /\ rep => replaced < MaxReplace
    /\ root' = RootAfterNext(rep)
    /\ deleted' = DeletedAfterNext(rep)
    /\ replaced' = IF rep THEN replaced + 1 ELSE replaced
    /\ at_end' = TRUE
    /\ pc' = "sort"
    /\ UNCHANGED << max_esize, edecider, min_wt, init_min_wt, ebound,
                    items, is_heap, pos, term, wt, pending, termlists, opens,
                    leaf_deletes, stats_term, collects, weighs, seen >>

\* an exception leaves expand with the tree held by a plain pointer
Unwind_Leak ==
    /\ pc' = "failed"
    /\ UNCHANGED << deleted, root >>

\* an exception leaves expand: ~unique_ptr deletes the current root
Unwind ==
    /\ pc' = "failed"
    /\ deleted' = Append(deleted, root)
    /\ root' = 0

\* line 123: there is no decider, or it accepts the term
DeciderAccepts ==
    /\ UNCHANGED << queried, calls, off_from_end, deref, visited >>
    /\ pc = "decide"
    /\ pc' = "count"
    /\ UNCHANGED << max_esize, edecider, min_wt, init_min_wt, ebound,
                    items, is_heap, pos, at_end, term, wt, pending, termlists,
                    opens, leaf_deletes, root, replaced, deleted, stats_term,
                    collects, weighs, seen >>

\* ++ebound placed before the decider's verdict takes effect
DeciderRejects_Counted ==
    /\ UNCHANGED << queried, calls, off_from_end, deref, visited >>
    /\ pc = "decide"
    /\ edecider
    /\ ebound' = ebound + 1
    /\ seen' = Append(seen, [term |-> term, acc |-> FALSE, wt |-> 0])
    /\ pc' = "next"
    /\ UNCHANGED << max_esize, edecider, min_wt, init_min_wt, items, is_heap,
                    pos, at_end, term, wt, pending, termlists, opens,
                    leaf_deletes, root, replaced, deleted, stats_term,
                    collects, weighs >>

\* line 123: the decider rejects the term: continue
DeciderRejects ==
    /\ UNCHANGED << queried, calls, off_from_end, deref, visited >>
    /\ pc = "decide"
    /\ edecider
    /\ seen' = Append(seen, [term |-> term, acc |-> FALSE, wt |-> 0])
    /\ pc' = "next"
    /\ UNCHANGED << max_esize, edecider, min_wt, init_min_wt, ebound,
                    items, is_heap, pos, at_end, term, wt, pending, termlists,
                    opens, leaf_deletes, root, replaced, deleted, stats_term,
                    collects, weighs >>

\* line 123: the decider throws
DeciderThrows ==
    /\ UNCHANGED << queried, calls, off_from_end, deref, visited >>
    /\ pc = "decide"
    /\ edecider
    /\ Unwind
    /\ UNCHANGED << max_esize, edecider, min_wt, init_min_wt, ebound,
                    items, is_heap, pos, at_end, term, wt, pending, termlists,
                    opens, leaf_deletes, replaced, stats_term, collects,
                    weighs, seen >>

\* ++ebound skipped once items holds max_esize terms
CountTerm_StopsWhenFull ==
    /\ UNCHANGED << queried, calls, off_from_end, deref, visited >>
    /\ pc = "count"
    /\ ebound' = IF Len(items) < max_esize THEN ebound + 1 ELSE ebound
    /\ pc' = "collect"
    /\ UNCHANGED << max_esize, edecider, min_wt, init_min_wt, items, is_heap,
                    pos, at_end, term, wt, pending, termlists, opens,
                    leaf_deletes, root, replaced, deleted, stats_term,
                    collects, weighs, seen >>

\* ++ebound done only when a decider was passed
CountTerm_OnlyWithDecider ==
    /\ UNCHANGED << queried, calls, off_from_end, deref, visited >>
    /\ pc = "count"
    /\ ebound' = IF edecider THEN ebound + 1 ELSE ebound
    /\ pc' = "collect"
    /\ UNCHANGED << max_esize, edecider, min_wt, init_min_wt, items, is_heap,
                    pos, at_end, term, wt, pending, termlists, opens,
                    leaf_deletes, root, replaced, deleted, stats_term,
                    collects, weighs, seen >>

\* line 125: ++ebound
CountTerm ==
    /\ UNCHANGED << queried, calls, off_from_end, deref, visited >>
    /\ pc = "count"
    /\ ebound' = ebound + 1
    /\ pc' = "collect"
    /\ UNCHANGED << max_esize, edecider, min_wt, init_min_wt, items,
                    is_heap, pos, at_end, term, wt, pending, termlists, opens,
                    leaf_deletes, root, replaced, deleted, stats_term,
                    collects, weighs, seen >>

\* collect_stats that keeps the statistics of the first term
CollectStats_NotReset ==
    /\ pc = "collect"
    /\ queried' = root
    /\ UNCHANGED << calls, off_from_end, deref, visited >>
    /\ stats_term' = IF stats_term = << >> THEN term ELSE stats_term
    /\ collects' = collects + 1
    /\ pc' = "weight"
    /\ UNCHANGED << max_esize, edecider, min_wt, init_min_wt, ebound,
                    items, is_heap, pos, at_end, term, wt, pending, termlists,
                    opens, leaf_deletes, root, replaced, deleted, weighs,
                    seen >>

\* line 129: eweight.collect_stats(tree.get(), term)
CollectStats ==
    /\ pc = "collect"
    /\ queried' = root
    /\ UNCHANGED << calls, off_from_end, deref, visited >>
    /\ stats_term' = term
    /\ collects' = collects + 1
    /\ pc' = "weight"
    /\ UNCHANGED << max_esize, edecider, min_wt, init_min_wt, ebound,
                    items, is_heap, pos, at_end, term, wt, pending, termlists,
                    opens, leaf_deletes, root, replaced, deleted, weighs,
                    seen >>

\* line 131: wt = eweight.get_weight()
GetWeight(w) ==
    /\ UNCHANGED << queried, calls, off_from_end, deref, visited >>
    /\ pc = "weight"
    /\ wt' = w
    /\ weighs' = weighs + 1
    /\ pc' = "select"
    /\ UNCHANGED << max_esize, edecider, min_wt, init_min_wt, ebound,
                    items, is_heap, pos, at_end, term, pending, termlists,
                    opens, leaf_deletes, root, replaced, deleted, stats_term,
                    collects, seen >>

\* lines 129-131: the weighting engine throws
WeightThrows ==
    /\ UNCHANGED << queried, calls, off_from_end, deref, visited >>
    /\ pc \in {"collect", "weight"}
    /\ Unwind
    /\ UNCHANGED << max_esize, edecider, min_wt, init_min_wt, ebound,
                    items, is_heap, pos, at_end, term, wt, pending, termlists,
                    opens, leaf_deletes, replaced, stats_term, collects,
                    weighs, seen >>

\* the test with "<" in place of "<="
AtOrBelowMinWt_Strict(w, m) == w < m

\* line 135: the test that ends the iteration of a term that weighs too little
AtOrBelowMinWt(w, m) == w <= m

\* line 135: if (wt <= min_wt) continue
ThresholdReject ==
    /\ UNCHANGED << queried, calls, off_from_end, deref, visited >>
    /\ pc = "select"
    /\ AtOrBelowMinWt(wt, min_wt)
    /\ seen' = Append(seen, [term |-> term, acc |-> TRUE, wt |-> wt])
    /\ pc' = "next"
    /\ UNCHANGED << max_esize, edecider, min_wt, init_min_wt, ebound,
                    items, is_heap, pos, at_end, term, wt, pending, termlists,
                    opens, leaf_deletes, root, replaced, deleted, stats_term,
                    collects, weighs >>

\* the overflow test off by one
Overflowing_Late(s, K) == Len(s) > K + 1

\* line 141: the candidate ESet is overflowing
Overflowing(s, K) == Len(s) > K

\* lines 142-148: the std algorithms the overflow step calls
CallsAfterOverflow(heap) ==
    IF heap
    THEN [calls EXCEPT !.push_heap = @ + 1, !.pop_heap = @ + 1]
    ELSE [calls EXCEPT !.make_heap = @ + 1, !.pop_heap = @ + 1]

\* the overflow step without line 150: the threshold is never raised
Retain_ThresholdKept ==
    /\ pc = "select"
    /\ ~AtOrBelowMinWt(wt, min_wt)
    /\ LET pushed == Append(items, ExpandTerm(wt, term))
       IN  IF Overflowing(pushed, max_esize)
           THEN /\ items' = RemoveWorst(pushed, is_heap)
                /\ is_heap' = TRUE
                /\ min_wt' = min_wt
                /\ calls' = CallsAfterOverflow(is_heap)
           ELSE /\ items' = pushed
                /\ UNCHANGED << is_heap, min_wt, calls >>
    /\ UNCHANGED << queried, off_from_end, deref, visited >>
    /\ seen' = Append(seen, [term |-> term, acc |-> TRUE, wt |-> wt])
    /\ pc' = "next"
    /\ UNCHANGED << max_esize, edecider, init_min_wt, ebound, pos,
                    at_end, term, wt, pending, termlists, opens, leaf_deletes,
                    root, replaced, deleted, stats_term, collects, weighs >>

\* the overflow step without line 143: is_heap is never set
Retain_FlagNeverSet ==
    /\ pc = "select"
    /\ ~AtOrBelowMinWt(wt, min_wt)
    /\ LET pushed == Append(items, ExpandTerm(wt, term))
       IN  IF Overflowing(pushed, max_esize)
           THEN /\ items' = RemoveWorst(pushed, is_heap)
                /\ is_heap' = is_heap
                /\ min_wt' = items'[1].wt
                /\ calls' = CallsAfterOverflow(is_heap)
           ELSE /\ items' = pushed
                /\ UNCHANGED << is_heap, min_wt, calls >>
    /\ UNCHANGED << queried, off_from_end, deref, visited >>
    /\ seen' = Append(seen, [term |-> term, acc |-> TRUE, wt |-> wt])
    /\ pc' = "next"
    /\ UNCHANGED << max_esize, edecider, init_min_wt, ebound, pos,
                    at_end, term, wt, pending, termlists, opens, leaf_deletes,
                    root, replaced, deleted, stats_term, collects, weighs >>

\* lines 137-151: push_back, and the overflow step when items outgrew max_esize
Retain ==
    /\ pc = "select"
    /\ ~AtOrBelowMinWt(wt, min_wt)
    /\ LET pushed == Append(items, ExpandTerm(wt, term))
       IN  IF Overflowing(pushed, max_esize)
           THEN /\ items' = RemoveWorst(pushed, is_heap)
                /\ is_heap' = TRUE
                /\ min_wt' = items'[1].wt
                /\ calls' = CallsAfterOverflow(is_heap)
           ELSE /\ items' = pushed
                /\ UNCHANGED << is_heap, min_wt, calls >>
    /\ UNCHANGED << queried, off_from_end, deref, visited >>
    /\ seen' = Append(seen, [term |-> term, acc |-> TRUE, wt |-> wt])
    /\ pc' = "next"
    /\ UNCHANGED << max_esize, edecider, init_min_wt, ebound, pos,
                    at_end, term, wt, pending, termlists, opens, leaf_deletes,
                    root, replaced, deleted, stats_term, collects, weighs >>

\* the final sort without sort_heap
SortedItems_NoSortHeap(s, heap) == IF heap THEN s ELSE Sort(s)

\* lines 155-159: the final sort
SortedItems(s, heap) == IF heap THEN SortHeap(s) ELSE Sort(s)

\* lines 155-159: the std algorithm the final sort calls
CallsAfterSort(heap) ==
    IF heap
    THEN [calls EXCEPT !.sort_heap = @ + 1]
    ELSE [calls EXCEPT !.sort = @ + 1]

\* lines 154-160: sort the contents and return; ~unique_ptr deletes the root
SortItems ==
    /\ pc = "sort"
    /\ calls' = CallsAfterSort(is_heap)
    /\ UNCHANGED << queried, off_from_end, deref, visited >>
    /\ items' = SortedItems(items, is_heap)
    /\ deleted' = Append(deleted, root)
    /\ root' = 0
    /\ pc' = "done"
    /\ UNCHANGED << max_esize, edecider, min_wt, init_min_wt, ebound,
                    is_heap, pos, at_end, term, wt, pending, termlists, opens,
                    leaf_deletes, replaced, stats_term, collects, weighs,
                    seen >>

(* ---------------------------- ESetIterator ----------------------------- *)
\* every variable of expand and of its histories
expand_vars == << max_esize, edecider, min_wt, init_min_wt, ebound, items,
                  is_heap, pos, at_end, term, wt, pending, termlists, opens,
                  leaf_deletes, root, replaced, deleted, stats_term, collects,
                  weighs, seen, queried, calls >>

\* lines 215-216, 223-224: Assert(off_from_end != 0) and
\* AssertRel(off_from_end, <=, items.size())
DerefAssertsHold(s, k) == k # 0 /\ k <= Len(s)

\* the element at begin() + off_from_end
ItemAt_FromBegin(s, k) == s[k]

\* lines 217, 225: the element at items.end() - off_from_end
ItemAt(s, k) == s[Len(s) - k + 1]

\* the caller makes an iterator over the finished ESet: begin() (k = size),
\* end() (k = 0), any position between, or one before the first
IterConstruct(k) ==
    /\ pc = "done"
    /\ off_from_end' = k
    /\ deref' = NoDeref
    /\ visited' = << >>
    /\ UNCHANGED pc
    /\ UNCHANGED expand_vars

\* ESetIterator::operator++ : one step towards the worst item
IterAdvance ==
    /\ pc = "done"
    /\ off_from_end > 0
    /\ off_from_end' = off_from_end - 1
    /\ visited' = Append(visited, deref)
    /\ deref' = NoDeref
    /\ UNCHANGED pc
    /\ UNCHANGED expand_vars

\* lines 212-218: ESetIterator::operator*
IterTerm ==
    /\ pc = "done"
    /\ IF DerefAssertsHold(items, off_from_end)
       THEN /\ deref' = [deref EXCEPT !.term = ItemAt(items, off_from_end).term]
            /\ UNCHANGED pc
       ELSE /\ pc' = AssertionFailure
            /\ UNCHANGED deref
    /\ UNCHANGED << off_from_end, visited >>
    /\ UNCHANGED expand_vars

\* lines 220-226: ESetIterator::get_weight
IterWeight ==
    /\ pc = "done"
    /\ IF DerefAssertsHold(items, off_from_end)
       THEN /\ deref' = [deref EXCEPT !.wt = << ItemAt(items, off_from_end).wt >>]
            /\ UNCHANGED pc
       ELSE /\ pc' = AssertionFailure
            /\ UNCHANGED deref
    /\ UNCHANGED << off_from_end, visited >>
    /\ UNCHANGED expand_vars

\* a finished ESet of n <= MaxK items, as a call of expand with one
\* document, no decider, max_esize = MaxK and min_wt = 0 leaves it when the
\* document yields n terms weighing w[1], ..., w[n], all above 0
FinishedESet(n, w) ==
    /\ pc = "done"
    /\ max_esize = MaxK
    /\ edecider = FALSE
    /\ min_wt = 0
    /\ init_min_wt = 0
    /\ ebound = n
    /\ items = Sort([i \in 1 .. n |-> ExpandTerm(w[i], TermList[i])])
    /\ is_heap = FALSE
    /\ pos = n
    /\ at_end = TRUE
    /\ term = IF n = 0 THEN << >> ELSE TermList[n]
    /\ wt = IF n = 0 THEN 0 ELSE w[n]
    /\ pending = 0
    /\ termlists = << >>
    /\ opens = 1
    /\ leaf_deletes = << >>
    /\ root = 0
    /\ replaced = 0
    /\ deleted = << 1 >>
    /\ stats_term = IF n = 0 THEN << >> ELSE TermList[n]
    /\ collects = n
    /\ weighs = n
    /\ seen = [i \in 1 .. n |-> [term |-> TermList[i], acc |-> TRUE, wt |-> w[i]]]
    /\ queried = 1
    /\ calls = [NoCalls EXCEPT !.next = n + 1, !.sort = 1]

InitIter ==
    /\ \E n \in 0 .. MaxK :
           \E w \in [1 .. n -> {x \in Weights : x > 0}] : FinishedESet(n, w)
    /\ off_from_end = 0
    /\ deref = NoDeref
    /\ visited = << >>

NextIter ==
    \/ \E k \in 0 .. MaxK + 1 : k <= Len(items) + 1 /\ IterConstruct(k)
    \/ IterAdvance
    \/ IterTerm
    \/ IterWeight

SpecIter == InitIter /\ [][NextIter]_vars

Next ==
    \/ \E K \in 0 .. MaxK, nd \in 0 .. MaxDocs : Expand(K, nd)
    \/ OpenTermList
    \/ OpenTermListThrows
    \/ MakeTermlistMerger
    \/ \E rep \in BOOLEAN : NextTerm(rep)
    \/ \E rep \in BOOLEAN : NextAtEnd(rep)
    \/ DeciderAccepts
    \/ DeciderRejects
    \/ DeciderThrows
    \/ CountTerm
    \/ CollectStats
    \/ \E w \in Weights : GetWeight(w)
    \/ WeightThrows
    \/ ThresholdReject
    \/ Retain
    \/ SortItems

Spec == Init /\ [][Next]_vars

(* ===================== properties of expand ============================ *)
\* the order of the result: a is lexicographically before b
RECURSIVE LexBefore(_, _)
LexBefore(a, b) ==
    IF b = << >> THEN FALSE
    ELSE IF a = << >> THEN TRUE
    ELSE IF a[1] # b[1] THEN a[1] < b[1]
    ELSE LexBefore(Tail(a), Tail(b))

\* a ranks before b: weight descending, term ascending
Better(a, b) ==
    \/ a.wt > b.wt
    \/ (a.wt = b.wt /\ LexBefore(a.term, b.term))

ItemSet == {items[i] : i \in 1 .. Len(items)}
AcceptedIdx == {i \in 1 .. Len(seen) : seen[i].acc}
RejectedIdx == {i \in 1 .. Len(seen) : ~seen[i].acc}
\* the accepted terms seen so far that weigh more than the initial min_wt
Candidates ==
    {ExpandTerm(seen[i].wt, seen[i].term) :
        i \in {j \in AcceptedIdx : seen[j].wt > init_min_wt}}
\* the first min(K, N) of Candidates in ranking order
RefTopK ==
    {c \in Candidates :
        Cardinality({d \in Candidates : Better(d, c)}) < max_esize}
LoopBoundary == pc = "next"
Finished == pc = "done"

\* C1: at every loop boundary and at the end of expand, items holds (as a
\* set, without duplicates) exactly the first min(K, N) of the accepted
\* terms seen so far that weigh more than the initial min_wt, ranked by
\* weight descending then term ascending.
C1_TopKOfSeen ==
    (LoopBoundary \/ pc = "sort" \/ Finished) =>
        /\ Cardinality(ItemSet) = Len(items)
        /\ ItemSet = RefTopK

\* C1 case: an overflow happened and two candidates of the same weight sit
\* on either side of the K boundary
C1_Witness ==
    /\ Finished
    /\ is_heap
    /\ Len(items) >= 2
    /\ \E c \in ItemSet, d \in Candidates \ ItemSet :
           c.wt = d.wt /\ LexBefore(c.term, d.term)

\* C2: the result has at most K items, and so has items at every loop
\* boundary (and at every other point between two overflow steps).
C2_SizeAtMostK ==
    pc \in {"next", "decide", "count", "collect", "weight", "select", "sort",
            "done"} => Len(items) <= max_esize

\* C2 case: a finished run that overflowed and holds K items
C2_Witness ==
    /\ Finished
    /\ is_heap
    /\ Len(seen) > max_esize + 1
    /\ Len(items) = max_esize

\* C3: the items of a finished expand are strictly sorted best first.
C3_SortedBestFirst ==
    Finished =>
        \A i \in 1 .. (Len(items) - 1) :
            \/ items[i].wt > items[i + 1].wt
            \/ /\ items[i].wt = items[i + 1].wt
               /\ LexBefore(items[i].term, items[i + 1].term)

\* C3 case: the sort_heap path with three items, two of them of equal weight
C3_Witness ==
    /\ Finished
    /\ is_heap
    /\ Len(items) >= 3
    /\ \E i \in 1 .. (Len(items) - 1) : items[i].wt = items[i + 1].wt
    /\ \E i \in 1 .. (Len(items) - 1) : items[i].wt > items[i + 1].wt

\* C4: ebound counts the terms the decider accepted: at every loop boundary
\* and at the end it is the number of accepted terms seen, whatever their
\* weights; it never decreases and only line 125 adds to it, one at a time.
C4_CountsAccepted ==
    /\ []((LoopBoundary \/ pc = "sort" \/ Finished) =>
              ebound = Cardinality(AcceptedIdx))
    /\ [][\/ ebound' = ebound
          \/ (pc = "count" /\ ebound' = ebound + 1)]_vars

\* C4 case: a finished run that counted terms arriving after items was full
\* and a term at or below the threshold, and skipped a rejected one
C4_Witness ==
    /\ Finished
    /\ RejectedIdx # {}
    /\ ebound > max_esize + 1
    /\ Len(items) = max_esize
    /\ \E i \in AcceptedIdx : seen[i].wt <= init_min_wt

\* C5: ebound >= items.size() in every reachable state.
C5_BoundAtLeastSize == ebound >= Len(items)

\* C5 case: a finished result with items, and more candidates than items
C5_Witness ==
    /\ Finished
    /\ Len(items) >= 2
    /\ ebound > Len(items)

\* C6 as stated: a finished result with ebound = size() means that no term
\* was rejected by the decider and the stream had at most K terms.
C6_Original ==
    (Finished /\ ebound = Len(items)) =>
        /\ RejectedIdx = {}
        /\ Len(seen) <= max_esize

\* C6 amended: a finished result with ebound = size() means that the terms
\* the decider accepted number at most K and each of them weighs more than
\* the initial min_wt (terms the decider rejected do not matter).
C6_EqualityMeansAllKept ==
    (Finished /\ ebound = Len(items)) =>
        /\ Cardinality(AcceptedIdx) <= max_esize
        /\ \A i \in AcceptedIdx : seen[i].wt > init_min_wt

\* C6 case: equality in a finished, non-empty result although the decider
\* rejected a term and the stream was longer than K
C6_Witness ==
    /\ Finished
    /\ Len(items) > 0
    /\ ebound = Len(items)
    /\ RejectedIdx # {}
    /\ Len(seen) > max_esize

\* C7: no item ever weighs exactly the initial min_wt; a candidate whose
\* weight equals the current threshold leaves items, the threshold and
\* is_heap unchanged and ends its iteration, and it has been counted.
C7_StrictlyGreater ==
    /\ [](\A i \in 1 .. Len(items) : items[i].wt # init_min_wt)
    /\ []((pc = "select") => ebound = Cardinality(AcceptedIdx) + 1)
    /\ [][(pc = "select" /\ wt = min_wt) =>
              /\ items' = items
              /\ min_wt' = min_wt
              /\ is_heap' = is_heap
              /\ ebound' = ebound
              /\ pc' = "next"]_vars

\* C7 case: with fewer than K items held a term weighing the initial min_wt
\* was turned away, and after an overflow raised the threshold so was a
\* term weighing exactly the raised threshold
C7_Witness ==
    /\ LoopBoundary
    /\ Len(seen) >= 3
    /\ seen[1].acc
    /\ seen[1].wt = init_min_wt
    /\ max_esize >= 2
    /\ min_wt > init_min_wt
    /\ seen[Len(seen)].acc
    /\ seen[Len(seen)].wt = min_wt
    /\ ebound = Len(seen)

\* C8 as stated: every accepted term weighing more than the initial min_wt
\* is in the result.
C8_Original == Finished => Candidates \subseteq ItemSet

\* C8 amended: an accepted term weighing more than the initial min_wt is in
\* the result when fewer than K such terms rank before it; so all of them
\* are when they number at most K.
C8_IncludedUnlessOutranked ==
    Finished =>
        /\ \A c \in Candidates :
               Cardinality({d \in Candidates \ {c} :
                               d.wt > c.wt
                               \/ (d.wt = c.wt /\ LexBefore(d.term, c.term))})
                   < max_esize
               => \E i \in 1 .. Len(items) : items[i] = c
        /\ Cardinality(Candidates) <= max_esize =>
               \A c \in Candidates : \E i \in 1 .. Len(items) : items[i] = c

\* C8 case: the boundary test: a term weighing the initial min_wt is left
\* out and one weighing just more is in the result of a run that overflowed
C8_Witness ==
    /\ Finished
    /\ is_heap
    /\ \E i \in AcceptedIdx : seen[i].wt = init_min_wt
    /\ \E i \in 1 .. Len(items) : items[i].wt = init_min_wt + 1

\* C9: when the decider rejects every term, the finished result has no
\* items, ebound is 0, and collect_stats and get_weight were never called.
C9_AllRejected ==
    (Finished /\ AcceptedIdx = {}) =>
        /\ Len(items) = 0
        /\ ebound = 0
        /\ collects = 0
        /\ weighs = 0

\* C9 case: a finished run over several terms, all rejected
C9_Witness ==
    /\ Finished
    /\ Len(seen) >= 3
    /\ AcceptedIdx = {}

\* C10 as stated: a call of expand on an ESet::Internal that a first run
\* has finished populating fails its Asserts, opens no TermList and leaves
\* ebound and items as they were.
C10_SecondCallRejected ==
    [][(pc = "done" /\ pc' # "done") =>
           /\ pc' = AssertionFailure
           /\ opens' = opens
           /\ ebound' = ebound
           /\ items' = items]_vars

\* number of times id occurs in the sequence s
Occurrences(s, id) == Cardinality({j \in 1 .. Len(s) : s[j] = id})
\* expand was left by the exception of open_term_list_direct
BuildFailed == pc = "failed" /\ pending > 0

\* C11: when open_term_list_direct throws for the i-th document, each of
\* the i-1 TermLists opened before is deleted exactly once, the vector
\* holds none any more, no tree exists, nothing of the loop has run, and
\* expand is left by the exception; no TermList is ever deleted twice.
C11_BuildRollback ==
    /\ \A id \in 1 .. MaxDocs + 1 : Occurrences(leaf_deletes, id) <= 1
    /\ BuildFailed =>
           /\ \A id \in 1 .. opens : Occurrences(leaf_deletes, id) = 1
           /\ Len(leaf_deletes) = opens
           /\ termlists = << >>
           /\ root = 0
           /\ deleted = << >>
           /\ seen = << >>
           /\ collects = 0

\* C11 case: the third open fails after two TermLists were opened
C11_Witness ==
    /\ BuildFailed
    /\ opens = 2
    /\ Len(leaf_deletes) = 2

\* C12 as stated: whenever expand is left by an exception, of
\* open_term_list_direct, of the decider or of the weighting engine, the
\* ESet::Internal has ebound 0 and no items.
C12_NoPartialResult ==
    pc = "failed" => (ebound = 0 /\ items = << >>)

\* what reading both the term and the weight of an item returns
Read(item) == [term |-> item.term, wt |-> << item.wt >>]

\* C13: with n items and off_from_end = k in 1..n, operator* and get_weight
\* return the term and the weight of the item at position n-k (counted
\* from 0) of the best-first sequence, so an iterator stepped from k = n
\* to 0 that reads every position returns the items once each, best to
\* worst; with k = 0 or k > n they fail the Assert and return nothing.
C13_IteratorReads ==
    /\ [](deref.term # << >> =>
              /\ off_from_end \in 1 .. Len(items)
              /\ deref.term = items[Len(items) - off_from_end + 1].term)
    /\ [](deref.wt # << >> =>
              /\ off_from_end \in 1 .. Len(items)
              /\ deref.wt = << items[Len(items) - off_from_end + 1].wt >>)
    /\ []((off_from_end = 0 /\ Len(visited) = Len(items)
              /\ \A j \in 1 .. Len(visited) :
                     visited[j].term # << >> /\ visited[j].wt # << >>)
           => visited = [j \in 1 .. Len(items) |-> Read(items[j])])
    /\ []((pc = AssertionFailure) =>
              /\ off_from_end = 0 \/ off_from_end > Len(items)
              /\ deref = NoDeref)
    /\ [][((IterTerm \/ IterWeight)
              /\ (off_from_end = 0 \/ off_from_end > Len(items)))
           => (pc' = AssertionFailure /\ deref' = deref)]_vars

\* C13 case: an iterator has gone through a result of three items of
\* different weights and terms, reading the term and the weight of each
C13_Witness ==
    /\ pc = "done"
    /\ Len(items) = 3
    /\ items[1].wt > items[3].wt
    /\ items[1].term # TermList[1]
    /\ off_from_end = 0
    /\ Len(visited) = 3
    /\ \A j \in 1 .. 3 : visited[j].term # << >> /\ visited[j].wt # << >>

\* expand is between its entry checks and its return
Running ==
    pc \in {"build", "next", "decide", "count", "collect", "weight", "select",
            "sort"}

\* C14: a call of expand with max_esize = 0 or an empty RSet fails an
\* Assert at once: no TermList is opened, the decider and the weighting
\* engine are not called, ebound and items stay as they were; so expand
\* never runs with max_esize = 0 or without a document.
C14_PreconditionsFailFast ==
    /\ [][\/ /\ pc' = AssertionFailure
              /\ UNCHANGED << ebound, items, opens, termlists, root,
                              collects, weighs, seen, calls, queried >>
           \/ \A K \in 0 .. MaxK, nd \in 0 .. MaxDocs :
                  (K = 0 \/ nd = 0) => ~Expand(K, nd)]_vars
    /\ [](Running => (max_esize >= 1 /\ pending + opens >= 1))

\* C14 case: the first call on a fresh ESet::Internal failed an Assert
C14_Witness ==
    /\ pc = AssertionFailure
    /\ max_esize = 0
    /\ opens = 0
    /\ ebound = 0
    /\ items = << >>
    /\ calls = NoCalls

\* m is the weight of the worst item held
IsMinWeight(m) ==
    /\ \E i \in 1 .. Len(items) : items[i].wt = m
    /\ \A i \in 1 .. Len(items) : items[i].wt >= m

\* C15: during a call the threshold min_wt is the caller's value until the
\* first overflow (also while exactly K items are held) and the weight of
\* the worst item held after every overflow step; it never decreases; and
\* every item held weighs more than the initial min_wt and at least the
\* current threshold.
C15_Threshold ==
    /\ []((Running \/ Finished) =>
              /\ ~is_heap => min_wt = init_min_wt
              /\ is_heap => IsMinWeight(min_wt)
              /\ \A i \in 1 .. Len(items) :
                     items[i].wt > init_min_wt /\ items[i].wt >= min_wt)
    /\ [][Running => min_wt' >= min_wt]_vars

\* C15 case: at a loop boundary after an overflow that raised the
\* threshold above the caller's value, with a better item held too
C15_Witness ==
    /\ LoopBoundary
    /\ is_heap
    /\ min_wt > init_min_wt
    /\ Len(items) >= 2
    /\ \E i \in 1 .. Len(items) : items[i].wt > min_wt

\* C16: for each term the steps come in the order decider, ++ebound,
\* collect_stats, get_weight, threshold test and insertion; a term the
\* decider rejects is not counted, not scored and leaves items, min_wt and
\* is_heap alone; for each accepted term collect_stats is called once,
\* on the current root and for that term, before get_weight, so a weight
\* is never taken from the statistics of an earlier term.
C16_EvaluationOrder ==
    /\ [][/\ pc = "decide" => pc' \in {"count", "next", "failed"}
          /\ pc = "count" => (pc' = "collect" /\ ebound' = ebound + 1)
          /\ pc = "collect" => pc' \in {"weight", "failed"}
          /\ pc = "weight" => pc' \in {"select", "failed"}
          /\ pc = "select" => pc' = "next"
          /\ ebound' # ebound => pc = "count"
          /\ collects' # collects =>
                 \/ pc \in {"idle", "done"}
                 \/ /\ pc = "collect"
                    /\ collects' = collects + 1
                    /\ stats_term' = term
                    /\ queried' = root
          /\ weighs' # weighs =>
                 \/ pc \in {"idle", "done"}
                 \/ (pc = "weight" /\ weighs' = weighs + 1)
          /\ items' # items => pc \in {"select", "sort"}
          /\ (pc = "decide" /\ pc' = "next") =>
                 UNCHANGED << ebound, collects, weighs, stats_term, items,
                              min_wt, is_heap >>]_vars
    /\ [](pc \in {"weight", "select"} =>
              /\ stats_term = term
              /\ queried = root
              /\ root >= 1
              /\ Occurrences(deleted, root) = 0
              /\ collects = Cardinality(AcceptedIdx) + 1)
    /\ [](pc = "weight" => weighs = collects - 1)
    /\ [](pc = "select" => weighs = collects)
    /\ [](LoopBoundary =>
              /\ collects = Cardinality(AcceptedIdx)
              /\ weighs = Cardinality(AcceptedIdx))

\* C16 case: a loop boundary after a rejected term and two scored terms,
\* the root having been replaced on the way
C16_Witness ==
    /\ LoopBoundary
    /\ RejectedIdx # {}
    /\ Cardinality(AcceptedIdx) >= 2
    /\ replaced >= 1
    /\ collects = 2
    /\ weighs = 2
    /\ stats_term = seen[Len(seen)].term

\* C17: is_heap is false until the first overflow and true from then on,
\* that is exactly when an overflow step has run; make_heap is called at
\* most once in a call, by the first overflow step, and each later
\* overflow step calls push_heap once; every overflow step calls pop_heap
\* once; the final sort is sort_heap exactly when is_heap is true and sort
\* otherwise; and once is_heap is true items holds exactly K items
\* between the steps.
C17_LazyHeap ==
    /\ []((Running \/ Finished) =>
              /\ is_heap <=> calls.pop_heap >= 1
              /\ calls.make_heap = IF calls.pop_heap >= 1 THEN 1 ELSE 0
              /\ calls.push_heap = calls.pop_heap - calls.make_heap
              /\ is_heap => Len(items) = max_esize)
    /\ [](Running => (calls.sort = 0 /\ calls.sort_heap = 0))
    /\ [](Finished =>
              /\ calls.sort_heap = IF is_heap THEN 1 ELSE 0
              /\ calls.sort = IF is_heap THEN 0 ELSE 1)
    /\ [][(Running /\ is_heap) => is_heap']_vars
    /\ [][(Running /\ calls'.pop_heap # calls.pop_heap) =>
              /\ pc = "select"
              /\ calls'.pop_heap = calls.pop_heap + 1
              /\ Len(items) = max_esize
              /\ IF is_heap
                 THEN /\ calls'.push_heap = calls.push_heap + 1
                      /\ calls'.make_heap = calls.make_heap
                 ELSE /\ calls'.make_heap = calls.make_heap + 1
                      /\ calls'.push_heap = calls.push_heap]_vars

\* C17 case: a finished call with two overflows or more, sorted by
\* sort_heap
C17_Witness ==
    /\ Finished
    /\ is_heap
    /\ max_esize >= 2
    /\ calls.make_heap = 1
    /\ calls.push_heap >= 1
    /\ calls.sort_heap = 1

\* the tree exists: expand is in its loop or about to sort
TreeLive ==
    pc \in {"next", "decide", "count", "collect", "weight", "select", "sort"}

\* C18: while the tree exists exactly one TermList is its root, and every
\* root before it has been deleted exactly once; a call of next() either
\* leaves the root as it is or installs a new root and deletes the old
\* one; at_end, get_termname and collect_stats are asked of the current
\* root only, never of a deleted one, and only after next() was called
\* and its replacement installed.
C18_RootReplacement ==
    /\ [](TreeLive =>
              /\ root >= 1
              /\ deleted = [i \in 1 .. (root - 1) |-> i]
              /\ root = replaced + 1)
    /\ [](pc \in {"decide", "count", "collect", "weight", "select", "sort"} =>
              /\ queried = root
              /\ Occurrences(deleted, queried) = 0
              /\ calls.next >= 1)
    /\ []((TreeLive /\ queried # 0) =>
              (calls.next >= 1 /\ Occurrences(deleted, queried) = 0))
    /\ [][pc = "next" =>
              /\ calls'.next = calls.next + 1
              /\ queried' = root'
              /\ \/ (root' = root /\ deleted' = deleted)
                 \/ /\ root' # root
                    /\ Occurrences(deleted, root') = 0
                    /\ deleted' = Append(deleted, root)]_vars
    /\ [][(TreeLive /\ pc # "next" /\ pc' \notin {"done", "failed"}) =>
              (root' = root /\ deleted' = deleted)]_vars

\* C18 case: next() has just replaced the root and the new root yielded
\* a term
C18_Witness ==
    /\ pc = "decide"
    /\ Len(seen) >= 1
    /\ root = 2
    /\ deleted = << 1 >>
    /\ queried = 2

\* the call ended after build_termlist_tree had returned the tree
EndedWithTree == pc \in {"done", "failed"} /\ pending = 0 /\ opens >= 1

\* C19: once the tree is built, expand deletes its current root exactly
\* once when it ends, at the end of the stream as well as when the decider
\* or the weighting engine throws; after the call every root the tree had,
\* the replaced ones included, has been deleted exactly once and none is
\* left.
C19_TreeReleased ==
    /\ [](EndedWithTree =>
              /\ root = 0
              /\ deleted = [i \in 1 .. (replaced + 1) |-> i])
    /\ [][(TreeLive /\ pc' \in {"done", "failed"}) =>
              /\ Occurrences(deleted, root) = 0
              /\ deleted' = Append(deleted, root)
              /\ root' = 0]_vars
    /\ [][(TreeLive /\ pc' \notin {"done", "failed"}) => root' # 0]_vars

\* C19 case: the decider or the weighting engine threw after the root had
\* been replaced and a term processed
C19_Witness ==
    /\ pc = "failed"
    /\ Len(seen) >= 1
    /\ replaced = 1
    /\ root = 0
    /\ deleted = << 1, 2 >>

\* the statement the call stands at can be executed; line 135 falls through
\* to line 137 (Retain) whenever it does not continue, and lines 155-159
\* (SortItems) have no condition: make_heap, push_heap, pop_heap, sort and
\* sort_heap are total on a vector
CanStep ==
    CASE pc = "build"   -> ENABLED (OpenTermList \/ OpenTermListThrows
                                       \/ MakeTermlistMerger)
      [] pc = "next"    -> ENABLED (\E r \in BOOLEAN :
                                       NextTerm(r) \/ NextAtEnd(r))
      [] pc = "decide"  -> ENABLED (DeciderAccepts \/ DeciderRejects
                                       \/ DeciderThrows)
      [] pc = "count"   -> ENABLED CountTerm
      [] pc = "collect" -> ENABLED CollectStats
      [] pc = "weight"  -> ENABLED ((\E w \in Weights : GetWeight(w))
                                       \/ WeightThrows)
      [] pc = "select"  -> \/ ENABLED ThresholdReject
                           \/ ~AtOrBelowMinWt(wt, min_wt)
      [] pc = "sort"    -> TRUE
      [] OTHER          -> FALSE

\* where the body of the loop stands, from the exit backwards
PcRank ==
    CASE pc = "decide"  -> 7
      [] pc = "count"   -> 6
      [] pc = "collect" -> 5
      [] pc = "weight"  -> 4
      [] pc = "select"  -> 3
      [] pc = "next"    -> 2
      [] pc = "sort"    -> 1
      [] OTHER          -> 0

\* what is left of the call: documents to open, terms of the stream, steps
\* of the current iteration
Measure ==
    IF pc = "build"
    THEN 8 * (Len(TermList) + 1) + pending + 1
    ELSE 8 * (Len(TermList) - pos) + PcRank

InLoopBody == pc \in {"decide", "count", "collect", "weight", "select"}

\* C20: a call of expand on a finite stream terminates (every step of the
\* call lowers a natural-number measure and no unfinished call is stuck);
\* the loop is left exactly by the advance after which the root reports the
\* end of the stream; the root is advanced once per iteration, so the terms
\* examined are the terms of the stream, in order, each once; the final
\* sort runs once, after the last term, and not before.
C20_TerminatesSinglePass ==
    /\ [](Measure >= 0)
    /\ [][Running => Measure' < Measure]_vars
    /\ [](Running => CanStep)
    /\ [](InLoopBody => /\ ~at_end
                        /\ calls.next = pos
                        /\ Len(seen) = pos - 1
                        /\ term = TermList[pos])
    /\ [](LoopBoundary => /\ ~at_end
                          /\ calls.next = pos
                          /\ Len(seen) = pos)
    /\ []((pc = "sort" \/ Finished) => /\ at_end
                                       /\ calls.next = pos + 1
                                       /\ Len(seen) = pos)
    /\ []((TreeLive \/ Finished) =>
              \A i \in 1 .. Len(seen) : seen[i].term = TermList[i])
    /\ [][(pc # "sort" /\ pc' = "sort") =>
              /\ pc = "next"
              /\ ~at_end /\ at_end'
              /\ calls'.next = calls.next + 1]_vars
    /\ [][(TreeLive /\ at_end' # at_end) => pc' = "sort"]_vars
    /\ [](Finished => calls.sort + calls.sort_heap = 1)
    /\ []((Running \/ pc = "failed") => calls.sort + calls.sort_heap = 0)
    /\ [][(calls'.sort + calls'.sort_heap > calls.sort + calls.sort_heap) =>
              /\ pc = "sort" /\ pc' = "done"
              /\ at_end
              /\ seen' = seen]_vars

\* C20 case: a call ran over a stream of MaxStream terms, with a replaced
\* root, to its end
C20_Witness ==
    /\ Finished
    /\ Len(seen) = MaxStream
    /\ calls.next = MaxStream + 1
    /\ replaced >= 1
    /\ calls.sort + calls.sort_heap = 1

====
